---------------------------- MODULE Spec2Model ----------------------------
(***************************************************************************)
(* A model of src/script.js (class SudokuGame): the constraint checker     *)
(* isValid, the two backtracking searches fillBoard and hasUniqueSolution, *)
(* the puzzle derivation createPuzzle and the play session around them.    *)
(*                                                                         *)
(* The source hard-codes a 9x9 grid with 3x3 boxes.  Every literal 9 of    *)
(* the source is N here, every 81 is N*N and every 3 used as a box side is *)
(* BoxSize.  The model is the same code at order BoxSize = 2 (a 4x4 grid   *)
(* with 2x2 boxes): the order at which TLC can enumerate the searches      *)
(* exhaustively.  Everything confirmed below is confirmed for that order.  *)
(*                                                                         *)
(* Arrays are functions over 0..len-1, as in the source.  A function that  *)
(* mutates its argument in place returns the argument's final value.       *)
(* Math.random is a stream of draws: a finite sequence of values k,        *)
(* standing for k/RandLevels, read cyclically.                             *)
(***************************************************************************)
EXTENDS Integers, Sequences, FiniteSets, TLC

\* The side of a box (the 3 of Math.floor(row / 3) * 3); see the header.
BoxSize == 2

\* The side of the grid (the 9 of the source's loops).
N == BoxSize * BoxSize

\* Bounds of the model.
\* The number of draws after which a random stream repeats.
RandPeriod == 4
\* The number of distinct values Math.random takes (k/RandLevels).
RandLevels == 3
\* The most cells cleared from a solved grid to build an input grid.
MaxClear == 4
\* The largest target number of removals handed to createPuzzle.
MaxTarget == 12

Idx == 0 .. (N - 1)
Cells == 0 .. (N * N - 1)
Digits == 1 .. N

RowOf(index) == index \div N
ColOf(index) == index % N

\* Array(9).fill(0).map(() => Array(9).fill(0))
EmptyBoard == [r \in Idx |-> [c \in Idx |-> 0]]

(***************************************************************************)
(* isValid                                                                 *)
(***************************************************************************)

\* isValid with the column check left out.
isValidNoColumn(board, row, col, num) ==
    LET boxRow == (row \div BoxSize) * BoxSize
        boxCol == (col \div BoxSize) * BoxSize
    IN  IF \E c \in Idx : board[row][c] = num THEN FALSE
        ELSE IF \E r \in 0 .. (BoxSize - 1), c \in 0 .. (BoxSize - 1) :
                    board[boxRow + r][boxCol + c] = num THEN FALSE
        ELSE TRUE

\* isValid with the 3x3 box check left out.
isValidNoBox(board, row, col, num) ==
    IF \E c \in Idx : board[row][c] = num THEN FALSE
    ELSE IF \E r \in Idx : board[r][col] = num THEN FALSE
    ELSE TRUE

isValid(board, row, col, num) ==
    LET boxRow == (row \div BoxSize) * BoxSize
        boxCol == (col \div BoxSize) * BoxSize
    IN  IF \E c \in Idx : board[row][c] = num THEN FALSE
        ELSE IF \E r \in Idx : board[r][col] = num THEN FALSE
        ELSE IF \E r \in 0 .. (BoxSize - 1) : \E c \in 0 .. (BoxSize - 1) :
                    board[boxRow + r][boxCol + c] = num THEN FALSE
        ELSE TRUE

(***************************************************************************)
(* The rules of Sudoku, stated on their own (not taken from the code).     *)
(***************************************************************************)

SameBox(r1, c1, r2, c2) ==
    /\ r1 \div BoxSize = r2 \div BoxSize
    /\ c1 \div BoxSize = c2 \div BoxSize

\* Two different cells that must not hold the same digit.
Peers(r1, c1, r2, c2) ==
    /\ <<r1, c1>> # <<r2, c2>>
    /\ (r1 = r2 \/ c1 = c2 \/ SameBox(r1, c1, r2, c2))

\* The pairs of cell indices that must not hold the same digit.
PeerPairs ==
    {pq \in Cells \X Cells :
        Peers(RowOf(pq[1]), ColOf(pq[1]), RowOf(pq[2]), ColOf(pq[2]))}

\* No digit is repeated in a row, a column or a box among the filled cells.
ConflictFree(g) ==
    \A pq \in PeerPairs :
        g[RowOf(pq[1])][ColOf(pq[1])] # 0 =>
            g[RowOf(pq[1])][ColOf(pq[1])] # g[RowOf(pq[2])][ColOf(pq[2])]

IsFull(g) == \A r \in Idx, c \in Idx : g[r][c] # 0

\* Every row, column and box holds every digit exactly once.
IsSolved(g) ==
    /\ \A r \in Idx : \A d \in Digits :
            Cardinality({c \in Idx : g[r][c] = d}) = 1
    /\ \A c \in Idx : \A d \in Digits :
            Cardinality({r \in Idx : g[r][c] = d}) = 1
    /\ \A br \in 0 .. (BoxSize - 1), bc \in 0 .. (BoxSize - 1) : \A d \in Digits :
            Cardinality({i \in Cells :
                /\ RowOf(i) \div BoxSize = br
                /\ ColOf(i) \div BoxSize = bc
                /\ g[RowOf(i)][ColOf(i)] = d}) = 1

EmptyCount(g) == Cardinality({i \in Cells : g[RowOf(i)][ColOf(i)] = 0})

\* g keeps every filled cell of h.
Extends(g, h) ==
    \A r \in Idx, c \in Idx : h[r][c] # 0 => g[r][c] = h[r][c]

(***************************************************************************)
(* Input grids.                                                            *)
(***************************************************************************)

\* A solved grid of any order: row r is the first row shifted.
PatternGrid ==
    [r \in Idx |-> [c \in Idx |->
        (((r % BoxSize) * BoxSize + (r \div BoxSize) + c) % N) + 1]]

\* A solved grid of the other kind (not a relabelling, reflection or
\* permutation of PatternGrid): its prefixes have dead ends two cells ahead.
SecondGrid ==
    LET rows == <<<<1, 2, 3, 4>>, <<3, 4, 2, 1>>, <<2, 1, 4, 3>>, <<4, 3, 1, 2>>>>
    IN  [r \in Idx |-> [c \in Idx |-> rows[r + 1][c + 1]]]

SeedGrids == {PatternGrid, SecondGrid}

Clear(g, E) ==
    [r \in Idx |-> [c \in Idx |-> IF (r * N + c) \in E THEN 0 ELSE g[r][c]]]

Poke(g, p, v) == [g EXCEPT ![RowOf(p)][ColOf(p)] = v]

ClearSets == {E \in SUBSET Cells : Cardinality(E) <= MaxClear}

\* The cells of each row, each column and each box, and each single cell.
Units ==
    {{i \in Cells : RowOf(i) = r} : r \in Idx} \cup
    {{i \in Cells : ColOf(i) = c} : c \in Idx} \cup
    {{i \in Cells : SameBox(RowOf(i), ColOf(i), RowOf(k), ColOf(k))} : k \in Cells}
    \cup {{i} : i \in Cells}

\* A solved grid with one row, one column, one box or one cell cleared.
UnitCleared == {Clear(PatternGrid, u) : u \in Units}

\* A solved grid with at most MaxClear cells cleared.
ClearedGrids == {Clear(PatternGrid, E) : E \in ClearSets}

\* The grids a backtracking search meets: the first m cells filled, the
\* rest empty.
SuffixCleared(g, m) == Clear(g, {i \in Cells : i >= m})

\* The same, and with the last filled cell holding any other digit.
PrefixGridsOf(g) ==
    {SuffixCleared(g, m) : m \in 0 .. (N * N)} \cup
    {Poke(SuffixCleared(g, t[1]), t[1] - 1, t[2]) :
        t \in (1 .. (N * N)) \X Digits}

PrefixGrids == UNION {PrefixGridsOf(g) : g \in SeedGrids}

\* The cleared grids, and the cleared grids with one cleared cell refilled
\* by any digit: solved, partial, conflicting and unsatisfiable grids.
RefilledGrids ==
    ClearedGrids \cup
    {Poke(Clear(PatternGrid, E), p, v) :
        <<E, p, v>> \in {t \in ClearSets \X Cells \X Digits : t[2] \in t[1]}}

\* The rows a solved grid can have: the permutations of the digits.
RowPerms ==
    {row \in [Idx -> Digits] : \A c1 \in Idx, c2 \in Idx :
        c1 # c2 => row[c1] # row[c2]}

\* The bands (BoxSize rows) whose boxes and columns repeat no digit.
Bands ==
    {b \in [0 .. (BoxSize - 1) -> RowPerms] :
        \A r1 \in 0 .. (BoxSize - 1), r2 \in 0 .. (BoxSize - 1) :
            \A c1 \in Idx, c2 \in Idx :
                (r1 # r2 /\ c1 \div BoxSize = c2 \div BoxSize)
                    => b[r1][c1] # b[r2][c2]}

\* Every solved grid of the order: BoxSize bands whose columns repeat no
\* digit.
AllSolved ==
    {g \in {[r \in Idx |-> st[r \div BoxSize][r % BoxSize]] :
                st \in [0 .. (BoxSize - 1) -> Bands]} : IsSolved(g)}

\* The solved grids that keep every filled cell of g.
Completions(g) == {s \in AllSolved : Extends(s, g)}

Min(a, b) == IF a < b THEN a ELSE b

(***************************************************************************)
(* Math.random and shuffleArray                                            *)
(***************************************************************************)

\* The random sources: every stream of RandPeriod draws, read cyclically.
Streams ==
    {[seq |-> s, pos |-> 1] : s \in [1 .. RandPeriod -> 0 .. (RandLevels - 1)]}

\* Math.floor(Math.random() * bound) for the stream's next draw.
RandomBelow(rnd, bound) == (rnd.seq[rnd.pos] * bound) \div RandLevels

\* The stream after one call of Math.random.
Advance(rnd) == [rnd EXCEPT !.pos = (rnd.pos % RandPeriod) + 1]

Swap(array, i, j) == [array EXCEPT ![i] = array[j], ![j] = array[i]]

\* The loop of shuffleArray from index i down to 1.
RECURSIVE shuffleFrom(_, _, _)
shuffleFrom(array, i, rnd) ==
    IF i > 0
    THEN shuffleFrom(Swap(array, i, RandomBelow(rnd, i + 1)), i - 1, Advance(rnd))
    ELSE [array |-> array, rnd |-> rnd]

\* No shuffle: the array in the order it was given, no random draw.
shuffleArrayNone(array, rnd) == [array |-> array, rnd |-> rnd]

shuffleArray(array, rnd) ==
    shuffleFrom(array, Cardinality(DOMAIN array) - 1, rnd)

(***************************************************************************)
(* The scan for the first empty cell, shared by fillBoard and solve        *)
(***************************************************************************)

\* The index of the first empty cell in row-major order, -1 when the grid
\* is full (the two nested for loops with their if).
FirstEmpty(board) ==
    LET empties == {i \in Cells : board[RowOf(i)][ColOf(i)] = 0}
    IN  IF empties = {} THEN -1
        ELSE CHOOSE i \in empties : \A k \in empties : i <= k

(***************************************************************************)
(* fillBoard and generateCompleteSudoku                                    *)
(***************************************************************************)

\* The array of candidates one short: the digits 1 .. N - 1, the first one
\* twice.
NumbersArrayShort == [k \in 0 .. (N - 1) |-> (k % (N - 1)) + 1]

\* const numbers = [1, 2, ..., 9]
NumbersArray == [k \in 0 .. (N - 1) |-> k + 1]

\* The cell after a failed trial, with the erase (board[row][col] = 0)
\* left out.
eraseTrialKeep(board, row, col) == board

\* board[row][col] = 0 after a recursive call that reported failure.
eraseTrial(board, row, col) == [board EXCEPT ![row][col] = 0]

\* fillBoard(board): [ok, board, rnd, erases]: the value returned, the grid
\* as the call leaves it, the random stream as the call leaves it, and the
\* number of trial writes the call and its recursive calls have erased.
\* fillTry is the loop "for (let num of numbers)" from position k on: the
\* numbers that isValid refuses are passed over, the first one it accepts
\* is tried.
RECURSIVE fillBoard(_, _), fillTry(_, _, _, _, _, _, _)
fillTry(board, row, col, numbers, k, rnd, erases) ==
    LET accepted == {j \in k .. (N - 1) : isValid(board, row, col, numbers[j])}
        j == CHOOSE x \in accepted : \A y \in accepted : x <= y
        sub == fillBoard([board EXCEPT ![row][col] = numbers[j]], rnd)
    IN  IF accepted = {}
        THEN [ok |-> FALSE, board |-> board, rnd |-> rnd, erases |-> erases]
        ELSE IF sub.ok
        THEN [ok |-> TRUE, board |-> sub.board, rnd |-> sub.rnd,
              erases |-> erases + sub.erases]
        ELSE fillTry(eraseTrial(sub.board, row, col), row, col, numbers,
                     j + 1, sub.rnd, erases + sub.erases + 1)

fillBoard(board, rnd) ==
    LET index == FirstEmpty(board)
        sh == shuffleArray(NumbersArray, rnd)
    IN  IF index = -1
        THEN [ok |-> TRUE, board |-> board, rnd |-> rnd, erases |-> 0]
        ELSE fillTry(board, RowOf(index), ColOf(index), sh.array, 0,
                     sh.rnd, 0)

\* generateCompleteSudoku(): the grid returned (fillBoard's value is dropped).
generateCompleteSudoku(rnd) ==
    LET filled == fillBoard(EmptyBoard, rnd)
    IN  [board |-> filled.board, rnd |-> filled.rnd, ok |-> filled.ok,
         erases |-> filled.erases]

(***************************************************************************)
(* hasUniqueSolution                                                       *)
(***************************************************************************)

\* The entry check of solve with the cut at "more than 2" instead of
\* "more than 1".
cutOffLate(solutions) == solutions > 2

\* The entry check of solve left out.
cutOffNever(solutions) == FALSE

\* if (solutions > 1) return;
cutOff(solutions) == solutions > 1

\* The reset after a trial left out.
resetCellKeep(b, row, col) == b

\* b[row][col] = 0, after the recursive call returns.
resetCell(b, row, col) == [b EXCEPT ![row][col] = 0]

\* solve(b) with the counter `solutions` of the enclosing call:
\* [b, solutions] as the call leaves them.  solveTry is the loop
\* "for (let num = 1; num <= 9; num++)" from num on: the numbers that
\* isValid refuses are passed over, the first one it accepts is tried.  The
\* recursive call has returned when the loop goes on: its counter, which
\* never falls, is read first.
\* late counts what happens while the counter is above 1 (history, read by
\* no statement): the writes b[row][col] = num and the calls of solve.
RECURSIVE solve(_, _, _), solveTry(_, _, _, _, _, _)
solveTry(b, row, col, num, solutions, late) ==
    LET accepted == {n \in num .. N : isValid(b, row, col, n)}
        n == CHOOSE x \in accepted : \A y \in accepted : x <= y
        sub == solve([b EXCEPT ![row][col] = n], solutions,
                     IF solutions > 1
                     THEN [late EXCEPT !.writes = late.writes + 1] ELSE late)
    IN  IF accepted = {}
        THEN [b |-> b, solutions |-> solutions, late |-> late]
        ELSE IF sub.solutions >= solutions
        THEN solveTry(resetCell(sub.b, row, col), row, col, n + 1,
                      sub.solutions, sub.late)
        ELSE sub

solve(b, solutions, late) ==
    CASE cutOff(solutions) ->
            [b |-> b, solutions |-> solutions,
             late |-> [late EXCEPT !.calls = late.calls + 1]]
      [] ~cutOff(solutions) /\ FirstEmpty(b) = -1 ->
            [b |-> b, solutions |-> solutions + 1, late |-> late]
      [] OTHER ->
            solveTry(b, RowOf(FirstEmpty(b)), ColOf(FirstEmpty(b)), 1,
                     solutions, late)

\* hasUniqueSolution(board): the value returned, the grid as the call
\* leaves it, the final counter and the history.
hasUniqueSolution(board) ==
    LET done == solve(board, 0, [writes |-> 0, calls |-> 0])
    IN  [result |-> (done.solutions = 1), board |-> done.b,
         solutions |-> done.solutions, late |-> done.late]

(***************************************************************************)
(* createPuzzle                                                            *)
(***************************************************************************)

\* JSON.parse(JSON.stringify(value)): a deep copy, equal cell for cell.
JSONCopy(value) == value

\* attempts after the loop that pushes 0 .. 80.
AttemptsArray == [k \in 0 .. (N * N - 1) |-> k]

\* createPuzzle up to its for loop: the locals [board, attempts, i, removed,
\* cellsToRemove] (and the random stream after the shuffle).
createPuzzleStart(board, cellsToRemove, rnd) ==
    LET sh == shuffleArray(AttemptsArray, rnd)
    IN  [board |-> board, attempts |-> sh.array, i |-> 0, removed |-> 0,
         cellsToRemove |-> cellsToRemove, rnd |-> sh.rnd]

\* The loop condition with <= for <.
walkCondOffByOne(w) ==
    w.i < Cardinality(DOMAIN w.attempts) /\ w.removed <= w.cellsToRemove

\* The loop condition stopping one position early.
walkCondShort(w) ==
    w.i < Cardinality(DOMAIN w.attempts) - 1 /\ w.removed < w.cellsToRemove

\* i < attempts.length && removed < cellsToRemove
walkCond(w) ==
    w.i < Cardinality(DOMAIN w.attempts) /\ w.removed < w.cellsToRemove

\* The loop body with the restore (board[row][col] = backup) left out.
walkStepNoRestore(w) ==
    LET index == w.attempts[w.i]
        row == RowOf(index)
        col == ColOf(index)
        cleared == [w.board EXCEPT ![row][col] = 0]
    IN  IF hasUniqueSolution(JSONCopy(cleared)).result
        THEN [w EXCEPT !.board = cleared, !.removed = w.removed + 1,
                       !.i = w.i + 1]
        ELSE [w EXCEPT !.board = cleared, !.i = w.i + 1]

\* The loop body with the backup read from the transposed cell.
walkStepWrongBackup(w) ==
    LET index == w.attempts[w.i]
        row == RowOf(index)
        col == ColOf(index)
        backup == w.board[col][row]
        cleared == [w.board EXCEPT ![row][col] = 0]
    IN  IF hasUniqueSolution(JSONCopy(cleared)).result
        THEN [w EXCEPT !.board = cleared, !.removed = w.removed + 1,
                       !.i = w.i + 1]
        ELSE [w EXCEPT !.board = [cleared EXCEPT ![row][col] = backup],
                       !.i = w.i + 1]

\* The loop body with removed++ on both branches.
walkStepCountRestored(w) ==
    LET index == w.attempts[w.i]
        row == RowOf(index)
        col == ColOf(index)
        backup == w.board[row][col]
        cleared == [w.board EXCEPT ![row][col] = 0]
    IN  IF hasUniqueSolution(JSONCopy(cleared)).result
        THEN [w EXCEPT !.board = cleared, !.removed = w.removed + 1,
                       !.i = w.i + 1]
        ELSE [w EXCEPT !.board = [cleared EXCEPT ![row][col] = backup],
                       !.removed = w.removed + 1, !.i = w.i + 1]

\* One pass of the loop body, the i++ included.
walkStep(w) ==
    LET index == w.attempts[w.i]
        row == RowOf(index)
        col == ColOf(index)
        backup == w.board[row][col]
        cleared == [w.board EXCEPT ![row][col] = 0]
    IN  IF hasUniqueSolution(JSONCopy(cleared)).result
        THEN [w EXCEPT !.board = cleared, !.removed = w.removed + 1,
                       !.i = w.i + 1]
        ELSE [w EXCEPT !.board = [cleared EXCEPT ![row][col] = backup],
                       !.i = w.i + 1]

RECURSIVE walkRun(_)
walkRun(w) == IF walkCond(w) THEN walkRun(walkStep(w)) ELSE w

\* createPuzzle(board) with cellsToRemove the value of getCellsToRemove():
\* the locals at the return; .board is the grid returned, which is the grid
\* passed, modified in place.
createPuzzle(board, cellsToRemove, rnd) ==
    walkRun(createPuzzleStart(board, cellsToRemove, rnd))

(***************************************************************************)
(* The play session: the fields of a SudokuGame and its handlers.          *)
(*                                                                         *)
(* board, solution and initialBoard are references into heap, the arrays   *)
(* the session has allocated, so that a copy and an alias differ.  The     *)
(* page contributes what the handlers read back from it: the cells with    *)
(* class 'prefilled', the modal's class 'show', the pending game-over      *)
(* prompts (setTimeout) and the live intervals (setInterval).  Sounds,     *)
(* highlights, texts, darkMode and soundEnabled are left out: no handler   *)
(* reads them.  cellsToRemove is the local of that name in the last call   *)
(* of createPuzzle (0 before the first).                                   *)
(***************************************************************************)

\* this.maxMistakes
MaxMistakes == 3

\* Bounds of the session.
\* The random streams a session draws its games from.
MaxGames == 2
\* The empty cells of a puzzle the player clicks and types into.
MaxPlayCells == 2
\* The seconds the timer is followed for.
MaxTimer == 1
\* The game-over prompts waiting at one time.
MaxPending == 1

\* this.selectedCell === null
NoCell == -1

\* The values the difficulty buttons hand to setDifficulty.
Difficulties == {"easy", "medium", "hard"}

ObjIds == 1 .. 3
Fields == {"solution", "board", "initialBoard"}

\* The array id a field's new array gets: its own slot unless another field
\* still refers to that array, else the least id no other field refers to.
Slot(field) ==
    CASE field = "solution" -> 1
      [] field = "board" -> 2
      [] field = "initialBoard" -> 3

NewObject(g, field) ==
    LET others == {g[f] : f \in Fields \ {field}}
        free == ObjIds \ others
    IN  IF Slot(field) \in free THEN Slot(field)
        ELSE CHOOSE id \in free : \A other \in free : id <= other

\* The arrays no field refers to are dropped.
Collect(g) ==
    [g EXCEPT !.heap = [id \in ObjIds |->
        IF id \in {g[f] : f \in Fields} THEN g.heap[id] ELSE <<>>]]

\* The copy left out: the same array under a second name.
DeepCopyAlias(heap, ref, fresh) == [heap |-> heap, ref |-> ref]

\* JSON.parse(JSON.stringify(x)) of the array ref: a new array, equal cell
\* for cell.
DeepCopy(heap, ref, fresh) ==
    [heap |-> [heap EXCEPT ![fresh] = JSONCopy(heap[ref])], ref |-> fresh]

\* The lookup with the counts of 'medium' and 'hard' exchanged.
getCellsToRemoveSwapped(difficulty) ==
    CASE difficulty = "easy" -> 30
      [] difficulty = "medium" -> 55
      [] difficulty = "hard" -> 45
      [] OTHER -> 30

getCellsToRemove(difficulty) ==
    CASE difficulty = "easy" -> 30
      [] difficulty = "medium" -> 45
      [] difficulty = "hard" -> 55
      [] OTHER -> 30

\* The random streams of the session: the first MaxGames of Streams, a
\* stream read as a number in base RandLevels.
RECURSIVE StreamRank(_, _)
StreamRank(seq, k) ==
    IF k > RandPeriod THEN 0
    ELSE seq[k] + RandLevels * StreamRank(seq, k + 1)

SessionStreams == {r \in Streams : StreamRank(r.seq, 1) < MaxGames}

\* generateCompleteSudoku() followed by createPuzzle on a grid equal to its
\* result, for each stream and each value of getCellsToRemove.
Generate(rnd, target) ==
    LET gen == generateCompleteSudoku(rnd)
    IN  [solution |-> gen.board,
         puzzle |-> createPuzzle(gen.board, target, gen.rnd).board]

Targets == {getCellsToRemove(d) : d \in Difficulties}

(***************************************************************************)
(* State: the call of an engine function under check (its inputs, its      *)
(* position and its locals); the SudokuGame object with the page state its *)
(* handlers read; the value of initialBoard when the last newGame returned *)
(* (history, read by no handler); and what generation yields for each      *)
(* state of Math.random a new game can start from, fixed for a run.        *)
(***************************************************************************)

VARIABLES call, game, snapshot, generated

vars == <<call, game, snapshot, generated>>

\* The object after the field assignments of the constructor.
Constructed ==
    [heap |-> [id \in ObjIds |-> <<>>],
     solution |-> 1, board |-> 2, initialBoard |-> 3,
     selectedCell |-> NoCell, mistakes |-> 0, difficulty |-> "easy",
     timer |-> 0, timerInterval |-> FALSE, isGameActive |-> FALSE,
     hintsEnabled |-> TRUE,
     prefilled |-> {}, modalShow |-> FALSE, timeouts |-> 0, intervals |-> 0,
     cellsToRemove |-> 0]

stopTimer(g) ==
    IF g.timerInterval
    THEN [g EXCEPT !.intervals = g.intervals - 1, !.timerInterval = FALSE]
    ELSE g

\* startTimer without its call of stopTimer.
startTimerNoStop(g) ==
    [g EXCEPT !.intervals = g.intervals + 1, !.timerInterval = TRUE]

startTimer(g) ==
    LET g1 == stopTimer(g)
    IN  [g1 EXCEPT !.intervals = g1.intervals + 1, !.timerInterval = TRUE]

\* renderBoard: the class 'prefilled' of every cell.
renderBoard(g) ==
    [g EXCEPT !.prefilled =
        {i \in Cells : g.heap[g.initialBoard][RowOf(i)][ColOf(i)] # 0}]

\* The argument of the copy that newGame keeps as initialBoard taken from
\* the solution.
snapshotSourceSolution(g) == g.solution

\* The argument of JSON.stringify in this.initialBoard = ...: this.board.
snapshotSource(g) == g.board

\* newGame() with table what generation yields for the state of Math.random
\* at the call, by value of getCellsToRemove.  createPuzzle clears cells of
\* the array it is passed and returns that array.
newGame(g, table) ==
    LET g1 == [g EXCEPT !.mistakes = 0, !.timer = 0, !.isGameActive = TRUE,
                        !.selectedCell = NoCell]
        cellsToRemove == getCellsToRemove(g1.difficulty)
        made == table[cellsToRemove]
        solRef == NewObject(g1, "solution")
        g2 == [g1 EXCEPT !.heap[solRef] = made.solution, !.solution = solRef,
                         !.cellsToRemove = cellsToRemove]
        arg == DeepCopy(g2.heap, g2.solution, NewObject(g2, "board"))
        g3 == [g2 EXCEPT !.heap = [arg.heap EXCEPT ![arg.ref] = made.puzzle],
                         !.board = arg.ref]
        snap == DeepCopy(g3.heap, snapshotSource(g3),
                         NewObject(g3, "initialBoard"))
        g4 == [g3 EXCEPT !.heap = snap.heap, !.initialBoard = snap.ref]
    IN  startTimer(renderBoard(Collect(g4)))

resetGame(g) ==
    LET cp == DeepCopy(g.heap, g.initialBoard, NewObject(g, "board"))
        g1 == [g EXCEPT !.heap = cp.heap, !.board = cp.ref,
                        !.mistakes = 0, !.timer = 0]
    IN  renderBoard(Collect(g1))

setDifficulty(g, level) == [g EXCEPT !.difficulty = level]

toggleHints(g) == [g EXCEPT !.hintsEnabled = ~g.hintsEnabled]

selectCell(g, index) ==
    IF ~g.isGameActive THEN g
    ELSE IF index \in g.prefilled THEN g
    ELSE [g EXCEPT !.selectedCell = index]

isPuzzleComplete(g) ==
    \A row \in Idx, col \in Idx : g.heap[g.board][row][col] # 0

victory(g) ==
    [stopTimer([g EXCEPT !.isGameActive = FALSE]) EXCEPT !.modalShow = TRUE]

\* gameOver: the prompt is left waiting (setTimeout, 500 ms).
gameOver(g) ==
    LET g1 == stopTimer([g EXCEPT !.isGameActive = FALSE])
    IN  [g1 EXCEPT !.timeouts = g1.timeouts + 1]

\* checkSolution without its test of isGameActive.
checkSolutionNoGuard(g) ==
    LET isCorrect ==
            \A row \in Idx, col \in Idx :
                g.heap[g.board][row][col] = g.heap[g.solution][row][col]
    IN  IF isCorrect /\ isPuzzleComplete(g) THEN victory(g) ELSE g

checkSolution(g) ==
    IF ~g.isGameActive THEN g
    ELSE LET isCorrect ==
                 \A row \in Idx, col \in Idx :
                     g.heap[g.board][row][col] = g.heap[g.solution][row][col]
         IN  IF isCorrect /\ isPuzzleComplete(g) THEN victory(g) ELSE g

placeNumber(g, num) ==
    IF g.selectedCell = NoCell THEN g
    ELSE LET row == RowOf(g.selectedCell)
             col == ColOf(g.selectedCell)
         IN  IF g.heap[g.initialBoard][row][col] # 0 THEN g
             ELSE LET g1 == [g EXCEPT !.heap[g.board][row][col] = num]
                      g2 == [g1 EXCEPT !.mistakes = g1.mistakes + 1]
                      g3 == IF g1.hintsEnabled
                                 /\ num # g1.heap[g1.solution][row][col]
                            THEN IF g2.mistakes >= MaxMistakes
                                 THEN gameOver(g2) ELSE g2
                            ELSE g1
                  IN  IF num # 0
                      THEN IF isPuzzleComplete(g3) THEN checkSolution(g3)
                           ELSE g3
                      ELSE g1

\* solvePuzzle() with the answer given to confirm().
solvePuzzle(g, confirmed) ==
    IF ~g.isGameActive THEN g
    ELSE IF confirmed
    THEN LET cp == DeepCopy(g.heap, g.solution, NewObject(g, "board"))
             g1 == renderBoard(Collect([g EXCEPT !.heap = cp.heap,
                                                 !.board = cp.ref]))
         IN  stopTimer([g1 EXCEPT !.isGameActive = FALSE])
    ELSE g

\* The guard of the entry handlers without its test of isGameActive.
entryGuardSelected(g) == g.selectedCell # NoCell

\* if (this.selectedCell === null || !this.isGameActive) return; (keydown)
\* and if (this.selectedCell !== null && this.isGameActive) (number pad).
entryGuard(g) == g.selectedCell # NoCell /\ g.isGameActive

\* The keydown handler and the number-pad handler: num is the digit, 0 for
\* Backspace, Delete and '0'.
keyEntry(g, num) == IF entryGuard(g) THEN placeNumber(g, num) ELSE g

\* No session runs while an engine function is checked on its own.
NoSession == game = Constructed /\ snapshot = <<>> /\ generated = <<>>

(***************************************************************************)
(* SpecValid: isValid applied to every cleared grid, cell and digit.       *)
(***************************************************************************)

InitValid ==
    \E g \in ClearedGrids, row \in Idx, col \in Idx, num \in Digits :
        /\ call = [op |-> "isValid", pc |-> "call", board |-> g,
                   row |-> row, col |-> col, num |-> num, result |-> FALSE]
        /\ NoSession

CallIsValid ==
    /\ call.op = "isValid"
    /\ call.pc = "call"
    /\ call' = [call EXCEPT !.pc = "ret",
                    !.result = isValid(call.board, call.row, call.col, call.num)]
    /\ UNCHANGED <<game, snapshot, generated>>

NextValid == CallIsValid

SpecValid == InitValid /\ [][NextValid]_vars

\* The digit is held by a cell of the target's row, column or box other
\* than the target cell.
OccursElsewhere(g, row, col, num) ==
    \E r \in Idx, c \in Idx : Peers(row, col, r, c) /\ g[r][c] = num

\* C5 as stated: isValid returns false if and only if the value appears in
\* the target's row, column or box among the cells other than the target,
\* whatever the target cell holds.
C5_AsStated ==
    (call.op = "isValid" /\ call.pc = "ret") =>
        (call.result = FALSE
            <=> OccursElsewhere(call.board, call.row, call.col, call.num))

\* C5 amended: isValid returns false if and only if the value appears in the
\* target's row, column or box, the target cell itself included; so when the
\* target cell does not hold the value (the callers' case: it is empty), if
\* and only if the value appears among the other cells.
C5_IsValid ==
    (call.op = "isValid" /\ call.pc = "ret") =>
        /\ call.result = FALSE
              <=> \/ OccursElsewhere(call.board, call.row, call.col, call.num)
                  \/ call.board[call.row][call.col] = call.num
        /\ call.board[call.row][call.col] # call.num =>
              (call.result = FALSE
                <=> OccursElsewhere(call.board, call.row, call.col, call.num))

\* isValid has rejected a digit for an empty cell that only the box holds.
C5_Witness ==
    /\ call.op = "isValid" /\ call.pc = "ret"
    /\ call.board[call.row][call.col] = 0
    /\ call.result = FALSE
    /\ \A c \in Idx : call.board[call.row][c] # call.num
    /\ \A r \in Idx : call.board[r][call.col] # call.num

(***************************************************************************)
(* SpecGen: generateCompleteSudoku under every random stream.              *)
(***************************************************************************)

InitGen ==
    \E rnd \in Streams :
        /\ call = [op |-> "generateCompleteSudoku", pc |-> "call", rnd |-> rnd,
                   board |-> EmptyBoard, ok |-> FALSE, erases |-> 0]
        /\ NoSession

CallGenerate ==
    /\ call.op = "generateCompleteSudoku"
    /\ call.pc = "call"
    /\ LET out == generateCompleteSudoku(call.rnd)
       IN  call' = [call EXCEPT !.pc = "ret", !.board = out.board,
                        !.ok = out.ok, !.erases = out.erases]
    /\ UNCHANGED <<game, snapshot, generated>>

NextGen == CallGenerate

SpecGen == InitGen /\ [][NextGen]_vars

\* C1: the grid generateCompleteSudoku returns has no empty cell and every
\* row, column and box of it holds every digit exactly once.
C1_GeneratedSolved ==
    (call.op = "generateCompleteSudoku" /\ call.pc = "ret") =>
        /\ IsFull(call.board)
        /\ IsSolved(call.board)

\* generateCompleteSudoku has returned after a run that backtracked.
C1_Witness ==
    /\ call.op = "generateCompleteSudoku" /\ call.pc = "ret"
    /\ call.erases > 0
    /\ IsFull(call.board)

(***************************************************************************)
(* SpecFill: fillBoard under every random stream on conflict-free grids:   *)
(* the grids a search meets (a prefix filled, the empty grid among them)   *)
(* and solved grids with a row, a column, a box or a cell cleared.         *)
(***************************************************************************)

FillInputs ==
    {g \in PrefixGridsOf(SecondGrid) \cup UnitCleared : ConflictFree(g)}

InitFill ==
    \E g \in FillInputs, rnd \in Streams :
        /\ call = [op |-> "fillBoard", pc |-> "call", rnd |-> rnd, before |-> g,
                   board |-> g, ok |-> FALSE, erases |-> 0]
        /\ NoSession

CallFillBoard ==
    /\ call.op = "fillBoard"
    /\ call.pc = "call"
    /\ LET out == fillBoard(call.board, call.rnd)
       IN  call' = [call EXCEPT !.pc = "ret", !.board = out.board,
                        !.ok = out.ok, !.erases = out.erases]
    /\ UNCHANGED <<game, snapshot, generated>>

NextFill == CallFillBoard

SpecFill == InitFill /\ [][NextFill]_vars

\* C8: on a conflict-free grid fillBoard returns true if and only if the
\* grid has a completion; on true the grid is a solved grid that keeps the
\* cells filled before the call, on false the grid is as before the call.
C8_FillBoard ==
    (call.op = "fillBoard" /\ call.pc = "ret") =>
        /\ call.ok <=> Completions(call.before) # {}
        /\ call.ok => (IsSolved(call.board) /\ Extends(call.board, call.before))
        /\ ~call.ok => call.board = call.before

\* fillBoard has returned false on a conflict-free grid after erasing trial
\* writes.
C8_Witness ==
    /\ call.op = "fillBoard" /\ call.pc = "ret"
    /\ ~call.ok
    /\ call.erases > 0
    /\ call.board = call.before

(***************************************************************************)
(* SpecCount: hasUniqueSolution on solved, partial, conflicting and        *)
(* unsatisfiable grids.                                                    *)
(***************************************************************************)

CountInputs == RefilledGrids \cup PrefixGrids

InitCount ==
    \E g \in CountInputs :
        /\ call = [op |-> "hasUniqueSolution", pc |-> "call", before |-> g,
                   board |-> g, result |-> FALSE, solutions |-> 0,
                   late |-> [writes |-> 0, calls |-> 0]]
        /\ NoSession

CallHasUniqueSolution ==
    /\ call.op = "hasUniqueSolution"
    /\ call.pc = "call"
    /\ LET out == hasUniqueSolution(call.board)
       IN  call' = [call EXCEPT !.pc = "ret", !.board = out.board,
                        !.result = out.result, !.solutions = out.solutions,
                        !.late = out.late]
    /\ UNCHANGED <<game, snapshot, generated>>

NextCount == CallHasUniqueSolution

SpecCount == InitCount /\ [][NextCount]_vars

\* C6: when hasUniqueSolution returns, the grid it was given is cell for
\* cell as it was before the call.
C6_GridRestored ==
    (call.op = "hasUniqueSolution" /\ call.pc = "ret") =>
        call.board = call.before

\* hasUniqueSolution has returned after its search was cut short at two
\* solutions, the grid being as before the call.
C6_Witness ==
    /\ call.op = "hasUniqueSolution" /\ call.pc = "ret"
    /\ call.solutions = 2
    /\ Cardinality(Completions(call.before)) > 2
    /\ call.board = call.before

\* C7: on a conflict-free grid the counter ends at min(k, 2), k the number
\* of completions of the grid, and hasUniqueSolution returns true exactly
\* when k = 1.
C7_CountIsMin ==
    (call.op = "hasUniqueSolution" /\ call.pc = "ret"
        /\ ConflictFree(call.before)) =>
        LET k == Cardinality(Completions(call.before))
        IN  /\ call.solutions = Min(k, 2)
            /\ call.solutions \in {0, 1, 2}
            /\ call.result <=> (k = 1)

\* hasUniqueSolution has counted 2 on a conflict-free grid with exactly two
\* completions.
C7_Witness ==
    /\ call.op = "hasUniqueSolution" /\ call.pc = "ret"
    /\ ConflictFree(call.before)
    /\ Cardinality(Completions(call.before)) = 2
    /\ call.solutions = 2
    /\ ~call.result

\* C13 as stated: once the counter is above 1 every call of solve returns at
\* its entry check, the counter is not incremented again, and no frame on
\* the stack writes a candidate into a cell.
C13_AsStated ==
    (call.op = "hasUniqueSolution" /\ call.pc = "ret") =>
        /\ call.solutions <= 2
        /\ call.late.writes = 0

\* C13 amended: once the counter is above 1 every call of solve returns at
\* its entry check and the counter is not incremented again (it ends at 2
\* at most); the frames on the stack still go through their remaining
\* candidates, and each one isValid accepts is written, handed to a call
\* of solve that returns at once, and reset, so the late writes and the
\* late calls are equal in number and the grid ends as it was.
C13_CutOff ==
    (call.op = "hasUniqueSolution" /\ call.pc = "ret") =>
        /\ call.solutions <= 2
        /\ call.late.calls = call.late.writes
        /\ call.solutions < 2 => call.late.writes = 0
        /\ call.late.writes > 0 => call.board = call.before

\* hasUniqueSolution has returned after frames on the stack wrote candidates
\* while the counter stood at 2.
C13_Witness ==
    /\ call.op = "hasUniqueSolution" /\ call.pc = "ret"
    /\ call.solutions = 2
    /\ call.late.writes > 0
    /\ call.late.calls = call.late.writes

(***************************************************************************)
(* SpecSteps: fillBoard and hasUniqueSolution.solve executed one step at a *)
(* time with the call stack explicit.  A frame of fillBoard holds its cell,*)
(* its own array numbers and the index k its loop has reached; a frame of  *)
(* solve holds its cell and its loop variable num.  pc is "enter" when a    *)
(* call (outermost or recursive) begins, "loop" at the head of the top     *)
(* frame's loop, "return" when a call has just returned to its caller and  *)
(* "ret" when the outermost call has returned.  SpecTerm adds weak         *)
(* fairness: an execution that can take a step takes it.                   *)
(***************************************************************************)

StepInputs == {EmptyBoard} \cup UnitCleared \cup PrefixGridsOf(PatternGrid)

Top(stack) == stack[Len(stack)]

Pop(stack) == SubSeq(stack, 1, Len(stack) - 1)

\* One array shared by all frames: a shuffle at a deeper level reorders
\* the array of every frame on the stack.
pushFrameShared(stack, frame) ==
    Append([i \in 1 .. Len(stack) |->
               [stack[i] EXCEPT !.numbers = frame.numbers]], frame)

\* const numbers = Array.from(...) is a new array in each call of
\* fillBoard: the frames on the stack keep theirs.
pushFrame(stack, frame) == Append(stack, frame)

\* One step of fillBoard(board).
fillBoardStep(c) ==
    CASE c.pc = "enter" ->
            LET index == FirstEmpty(c.board)
                sh == shuffleArray(NumbersArray, c.rnd)
            IN  IF index = -1
                THEN [c EXCEPT !.pc = "return", !.value = TRUE]
                ELSE [c EXCEPT !.pc = "loop", !.rnd = sh.rnd,
                               !.stack = pushFrame(@,
                                   [row |-> RowOf(index), col |-> ColOf(index),
                                    numbers |-> sh.array, k |-> 0])]
      [] c.pc = "loop" ->
            LET f == Top(c.stack)
            IN  IF f.k >= N
                THEN [c EXCEPT !.pc = "return", !.value = FALSE,
                               !.stack = Pop(@)]
                ELSE IF isValid(c.board, f.row, f.col, f.numbers[f.k])
                THEN [c EXCEPT !.pc = "enter",
                               !.board[f.row][f.col] = f.numbers[f.k]]
                ELSE [c EXCEPT !.stack[Len(c.stack)].k = f.k + 1]
      [] c.pc = "return" ->
            IF c.stack = <<>>
            THEN [c EXCEPT !.pc = "ret", !.ok = c.value]
            ELSE LET f == Top(c.stack)
                 IN  IF c.value
                     THEN [c EXCEPT !.stack = Pop(@)]
                     ELSE [c EXCEPT !.pc = "loop",
                                    !.board = eraseTrial(@, f.row, f.col),
                                    !.stack[Len(c.stack)].k = f.k + 1,
                                    !.erases = @ + 1]

\* One step of solve(b) inside hasUniqueSolution.
solveStep(c) ==
    CASE c.pc = "enter" ->
            LET index == FirstEmpty(c.board)
            IN  IF cutOff(c.solutions)
                THEN [c EXCEPT !.pc = "return"]
                ELSE IF index = -1
                THEN [c EXCEPT !.pc = "return", !.solutions = @ + 1]
                ELSE [c EXCEPT !.pc = "loop",
                               !.stack = Append(@,
                                   [row |-> RowOf(index), col |-> ColOf(index),
                                    num |-> 1])]
      [] c.pc = "loop" ->
            LET f == Top(c.stack)
            IN  IF f.num > N
                THEN [c EXCEPT !.pc = "return", !.stack = Pop(@)]
                ELSE IF isValid(c.board, f.row, f.col, f.num)
                THEN [c EXCEPT !.pc = "enter",
                               !.board[f.row][f.col] = f.num]
                ELSE [c EXCEPT !.stack[Len(c.stack)].num = f.num + 1]
      [] c.pc = "return" ->
            IF c.stack = <<>>
            THEN [c EXCEPT !.pc = "ret", !.result = (c.solutions = 1)]
            ELSE LET f == Top(c.stack)
                 IN  [c EXCEPT !.pc = "loop",
                               !.board = resetCell(@, f.row, f.col),
                               !.stack[Len(c.stack)].num = f.num + 1]

Running == {"enter", "loop", "return"}

\* No call has been made yet.
InitTerm ==
    /\ call = [op |-> "none", pc |-> "idle"]
    /\ NoSession

\* generateCompleteSudoku() is called, Math.random being in state rnd.
EnterGenerate ==
    /\ call.pc = "idle"
    /\ \E rnd \in Streams :
           call' = [op |-> "generateCompleteSudoku", pc |-> "enter",
                    seed |-> rnd, rnd |-> rnd, board |-> EmptyBoard,
                    stack |-> <<>>, value |-> FALSE, ok |-> FALSE,
                    erases |-> 0]
    /\ UNCHANGED <<game, snapshot, generated>>

\* hasUniqueSolution(g) is called.
EnterHasUniqueSolution ==
    /\ call.pc = "idle"
    /\ \E g \in StepInputs :
           call' = [op |-> "hasUniqueSolution", pc |-> "enter", before |-> g,
                    board |-> g, stack |-> <<>>, solutions |-> 0,
                    result |-> FALSE]
    /\ UNCHANGED <<game, snapshot, generated>>

FillStep ==
    /\ call.op = "generateCompleteSudoku"
    /\ call.pc \in Running
    /\ call' = fillBoardStep(call)
    /\ UNCHANGED <<game, snapshot, generated>>

SolveStep ==
    /\ call.op = "hasUniqueSolution"
    /\ call.pc \in Running
    /\ call' = solveStep(call)
    /\ UNCHANGED <<game, snapshot, generated>>

NextTerm ==
    \/ EnterGenerate
    \/ EnterHasUniqueSolution
    \/ FillStep
    \/ SolveStep

SpecSteps == InitTerm /\ [][NextTerm]_vars

SpecTerm == SpecSteps /\ WF_vars(NextTerm)

\* C11: every call of generateCompleteSudoku returns, with fillBoard
\* reporting success on the empty grid and a grid without empty cells, and
\* every call of hasUniqueSolution returns.
C11_Terminates ==
    (call.pc = "enter" /\ call.stack = <<>>) ~>
        /\ call.pc = "ret"
        /\ call.op = "generateCompleteSudoku" =>
              (call.ok /\ EmptyCount(call.board) = 0)

\* generateCompleteSudoku has returned a grid without empty cells after
\* fillBoard erased more than one trial write, and the grid is the one the
\* recursive definition computes.
C11_Witness ==
    /\ call.op = "generateCompleteSudoku" /\ call.pc = "ret"
    /\ call.ok
    /\ call.erases > 1
    /\ EmptyCount(call.board) = 0
    /\ call.board = generateCompleteSudoku(call.seed).board

\* A step of fillBoard.
FillStepTaken ==
    call.op = "generateCompleteSudoku" /\ call'.op = "generateCompleteSudoku"

\* The frames that are on the stack before and after a step.
KeptFrames == 1 .. Min(Len(call.stack), Len(call'.stack))

\* C15: each frame of fillBoard shuffles its own array of 1 .. 9; no step,
\* a deeper frame's shuffle included, changes the array of a frame on the
\* stack; a frame's loop goes through its array one index at a time from
\* the first, and the frame reports failure only after the last, so it has
\* tried every digit exactly once.
C15_OwnOrder ==
    [][FillStepTaken =>
          /\ \A i \in KeptFrames :
                /\ call'.stack[i].numbers = call.stack[i].numbers
                /\ call'.stack[i].row = call.stack[i].row
                /\ call'.stack[i].col = call.stack[i].col
                /\ call'.stack[i].k \in {call.stack[i].k, call.stack[i].k + 1}
          /\ Len(call'.stack) > Len(call.stack) =>
                /\ Len(call'.stack) = Len(call.stack) + 1
                /\ Top(call'.stack).k = 0
                /\ {Top(call'.stack).numbers[j] : j \in 0 .. (N - 1)} = Digits
          /\ (call.pc = "loop" /\ call'.pc = "enter") =>
                call'.board[Top(call.stack).row][Top(call.stack).col]
                    = Top(call.stack).numbers[Top(call.stack).k]
          /\ (call'.pc = "return" /\ ~call'.value) =>
                /\ Len(call'.stack) = Len(call.stack) - 1
                /\ Top(call.stack).k = N
                /\ call'.board[Top(call.stack).row][Top(call.stack).col] = 0
      ]_vars

\* A frame has just reported failure to a caller whose order differs from
\* the order of a frame below it.
C15_Witness ==
    /\ call.op = "generateCompleteSudoku" /\ call.pc = "return"
    /\ ~call.value
    /\ \E i \in 1 .. Len(call.stack) :
          /\ i < Len(call.stack)
          /\ call.stack[i].numbers # Top(call.stack).numbers

\* C16 as stated: the order of candidates comes from one array shuffled once
\* per fill and reused across the recursive levels, so all frames on the
\* stack go through the digits in the same order and the recursive calls
\* draw no random number.
C16_AsStated ==
    /\ [](call.op = "generateCompleteSudoku" =>
             \A i \in 1 .. Len(call.stack), j \in 1 .. Len(call.stack) :
                 call.stack[i].numbers = call.stack[j].numbers)
    /\ [][(FillStepTaken /\ call.stack # <<>>) => call'.rnd = call.rnd]_vars

\* C16 amended: every call of fillBoard that finds an empty cell, the
\* recursive ones included, builds the array 1 .. 9 anew and shuffles it
\* with N - 1 fresh random draws; no other step of the fill draws a random
\* number.
C16_ShufflePerCall ==
    [][FillStepTaken =>
          IF Len(call'.stack) > Len(call.stack)
          THEN /\ Top(call'.stack).numbers
                      = shuffleArray(NumbersArray, call.rnd).array
               /\ call'.rnd.seq = call.rnd.seq
               /\ call'.rnd.pos
                      = ((call.rnd.pos - 1 + (N - 1)) % RandPeriod) + 1
          ELSE call'.rnd = call.rnd
      ]_vars

\* Two frames on the stack go through the digits in different orders.
C16_Witness ==
    /\ call.op = "generateCompleteSudoku" /\ call.pc = "loop"
    /\ \E i \in 1 .. Len(call.stack), j \in 1 .. Len(call.stack) :
          call.stack[i].numbers # call.stack[j].numbers

(***************************************************************************)
(* SpecPuzzle: createPuzzle, one loop pass at a time, on solved grids with *)
(* every target up to MaxTarget under every random stream.                 *)
(***************************************************************************)

InitPuzzle ==
    \E g \in SeedGrids, n \in 0 .. MaxTarget, rnd \in Streams :
        /\ call = [op |-> "createPuzzle", pc |-> "call", solved |-> g,
                   target |-> n, rnd |-> rnd,
                   w |-> [board |-> g, attempts |-> AttemptsArray, i |-> 0,
                          removed |-> 0, cellsToRemove |-> n, rnd |-> rnd]]
        /\ NoSession

\* Lines 351-359: the locals and the shuffle.
PuzzleStart ==
    /\ call.op = "createPuzzle"
    /\ call.pc = "call"
    /\ call' = [call EXCEPT !.pc = "loop",
                    !.w = createPuzzleStart(call.solved, call.target, call.rnd)]
    /\ UNCHANGED <<game, snapshot, generated>>

\* One pass of the for loop.
PuzzleStep ==
    /\ call.op = "createPuzzle"
    /\ call.pc = "loop"
    /\ walkCond(call.w)
    /\ call' = [call EXCEPT !.w = walkStep(call.w)]
    /\ UNCHANGED <<game, snapshot, generated>>

\* The loop condition fails: return board.
PuzzleReturn ==
    /\ call.op = "createPuzzle"
    /\ call.pc = "loop"
    /\ ~walkCond(call.w)
    /\ call' = [call EXCEPT !.pc = "ret"]
    /\ UNCHANGED <<game, snapshot, generated>>

NextPuzzle == PuzzleStart \/ PuzzleStep \/ PuzzleReturn

SpecPuzzle == InitPuzzle /\ [][NextPuzzle]_vars

\* C2: the grid createPuzzle returns has exactly one completion, the solved
\* grid it was derived from, and the counter run on it ends at exactly 1.
C2_UniqueAtReturn ==
    (call.op = "createPuzzle" /\ call.pc = "ret") =>
        /\ Completions(call.w.board) = {call.solved}
        /\ hasUniqueSolution(call.w.board).solutions = 1

\* createPuzzle has returned a grid with cleared cells after rejecting a
\* position whose clearing left more than one completion.
C2_Witness ==
    /\ call.op = "createPuzzle" /\ call.pc = "ret"
    /\ call.w.removed > 0
    /\ call.w.i > call.w.removed
    /\ Completions(call.w.board) = {call.solved}

\* C3: at every step of the walk and at the return every non-empty cell of
\* the working grid equals the cell of the solved grid.
C3_SubsetOfSolved ==
    call.op = "createPuzzle" => Extends(call.solved, call.w.board)

\* The walk has restored a rejected position and gone on.
C3_Witness ==
    /\ call.op = "createPuzzle" /\ call.pc = "loop"
    /\ call.w.i > call.w.removed
    /\ call.w.removed > 0
    /\ Extends(call.solved, call.w.board)
    /\ call.w.board # call.solved

\* C4: the grid createPuzzle returns has at most n empty cells, n the
\* target; for n = 0 it is the solved grid unchanged.
C4_RemovalBound ==
    (call.op = "createPuzzle" /\ call.pc = "ret") =>
        /\ EmptyCount(call.w.board) >= 0
        /\ EmptyCount(call.w.board) <= call.target
        /\ call.target = 0 => call.w.board = call.solved

\* createPuzzle has returned with exactly the target number of cells
\* cleared, before the end of the list.
C4_Witness ==
    /\ call.op = "createPuzzle" /\ call.pc = "ret"
    /\ call.target > 0
    /\ EmptyCount(call.w.board) = call.target
    /\ call.w.i < N * N

EmptyCells(g) == {i \in Cells : g[RowOf(i)][ColOf(i)] = 0}

\* C14: the walk takes the positions in the shuffled order, each one at most
\* once; it attempts none once removed has reached the target; a position
\* stays cleared, and removed goes up by one, exactly when the grid with
\* that position cleared has exactly one solution, and otherwise the cell
\* gets its prior value back.
C14_WalkStep ==
    [][(call.op = "createPuzzle" /\ call.pc = "loop" /\ call'.pc = "loop") =>
          LET w == call.w
              after == call'.w
              index == w.attempts[w.i]
              row == RowOf(index)
              col == ColOf(index)
              cleared == [w.board EXCEPT ![row][col] = 0]
          IN  /\ w.removed < w.cellsToRemove
              /\ w.i < N * N
              /\ {w.attempts[j] : j \in 0 .. (N * N - 1)} = Cells
              /\ after.attempts = w.attempts
              /\ after.i = w.i + 1
              /\ w.board[row][col] # 0
              /\ IF Cardinality(Completions(cleared)) = 1
                 THEN after.board = cleared /\ after.removed = w.removed + 1
                 ELSE after.board = w.board /\ after.removed = w.removed
      ]_vars

\* The walk has gone through every position without reaching its target,
\* keeping some cleared and restoring others.
C14_Witness ==
    /\ call.op = "createPuzzle" /\ call.pc = "loop"
    /\ call.w.i = N * N
    /\ call.w.removed > 0
    /\ call.w.removed < call.w.cellsToRemove

\* C17: when createPuzzle returns with fewer cells cleared than the target,
\* every position has been attempted and clearing any one of the clues left
\* gives a grid with more than one solution.
C17_LocallyMinimal ==
    (call.op = "createPuzzle" /\ call.pc = "ret"
        /\ call.w.removed < call.w.cellsToRemove) =>
        /\ call.w.i = N * N
        /\ \A index \in Cells \ EmptyCells(call.w.board) :
              Cardinality(Completions(Clear(call.w.board, {index}))) > 1

\* createPuzzle has returned short of its target with clues left.
C17_Witness ==
    /\ call.op = "createPuzzle" /\ call.pc = "ret"
    /\ call.w.removed < call.w.cellsToRemove
    /\ call.w.removed > 0
    /\ EmptyCount(call.w.board) = call.w.removed
    /\ EmptyCount(call.w.board) < N * N

(***************************************************************************)
(* SpecSession: the session as the page drives it.  It starts from a new   *)
(* game, fresh or with every empty cell but the play cells filled in       *)
(* correctly by the player, and takes any sequence of clicks, key presses, *)
(* timer ticks and prompt answers.                                         *)
(***************************************************************************)

\* The first MaxPlayCells empty cells of a puzzle.
PlayCells(puzzle) ==
    {i \in EmptyCells(puzzle) :
        Cardinality({j \in EmptyCells(puzzle) : j < i}) < MaxPlayCells}

\* The cells the player clicks: the play cells and the first pre-filled cell.
ClickCells(puzzle) ==
    PlayCells(puzzle) \cup
    {i \in Cells \ EmptyCells(puzzle) :
        \A j \in Cells \ EmptyCells(puzzle) : i <= j}

\* The game after the player has selected each empty cell that is not a
\* play cell and typed its digit of the solution, a play cell last.
Advanced(g) ==
    LET play == PlayCells(g.heap[g.initialBoard])
    IN  IF play = {} THEN g
        ELSE [g EXCEPT
                !.heap[g.board] = Clear(g.heap[g.solution], play),
                !.selectedCell = CHOOSE i \in play : \A j \in play : i <= j]

NoCall == [op |-> "none", pc |-> "ret"]

\* What generation yields from the state rnd of Math.random, by target.
Deal(rnd) == [target \in Targets |-> generated[<<rnd, target>>]]

InitSession ==
    \E rnd \in SessionStreams, advanced \in BOOLEAN :
        LET all == [t \in SessionStreams \X Targets |-> Generate(t[1], t[2])]
            g == newGame(Constructed, [target \in Targets |-> all[<<rnd, target>>]])
        IN  /\ generated = all
            /\ game = IF advanced THEN Advanced(g) ELSE g
            /\ snapshot = g.heap[g.initialBoard]
            /\ call = NoCall

\* Line 85: the New Game button.
ClickNewGame ==
    \E rnd \in SessionStreams :
        /\ game' = newGame(game, Deal(rnd))
        /\ snapshot' = game'.heap[game'.initialBoard]
        /\ UNCHANGED <<call, generated>>

\* Line 86: the Reset button.
ClickReset ==
    /\ game' = resetGame(game)
    /\ UNCHANGED <<call, snapshot, generated>>

\* Line 87: the Check button.
ClickCheck ==
    /\ game' = checkSolution(game)
    /\ UNCHANGED <<call, snapshot, generated>>

\* Line 88: the Solve button and the answer to its confirm().
ClickSolve ==
    \E confirmed \in BOOLEAN :
        /\ game' = solvePuzzle(game, confirmed)
        /\ UNCHANGED <<call, snapshot, generated>>

\* Lines 58-62: a click on a cell of the grid.
ClickCell ==
    \E index \in ClickCells(snapshot) :
        /\ game' = selectCell(game, index)
        /\ UNCHANGED <<call, snapshot, generated>>

\* Lines 65-82: a digit key, Backspace, Delete or a number-pad button.
Entry ==
    \E num \in 0 .. N :
        /\ keyEntry(game, num).timeouts <= MaxPending
        /\ game' = keyEntry(game, num)
        /\ UNCHANGED <<call, snapshot, generated>>

\* Lines 91-97: a difficulty button.
ClickDifficulty ==
    \E level \in Difficulties :
        /\ game' = setDifficulty(game, level)
        /\ UNCHANGED <<call, snapshot, generated>>

\* Line 102: the hints toggle.
ClickHints ==
    /\ game' = toggleHints(game)
    /\ UNCHANGED <<call, snapshot, generated>>

\* Lines 482-485: a live interval fires.
Tick ==
    /\ game.intervals > 0
    /\ game.timer < MaxTimer
    /\ game' = [game EXCEPT !.timer = game.timer + 1]
    /\ UNCHANGED <<call, snapshot, generated>>

\* Lines 303-307: a waiting game-over prompt and the answer to it.
GameOverPrompt ==
    \E confirmed \in BOOLEAN, rnd \in SessionStreams :
        /\ game.timeouts > 0
        /\ LET g1 == [game EXCEPT !.timeouts = game.timeouts - 1]
           IN  game' = IF confirmed THEN newGame(g1, Deal(rnd)) ELSE g1
        /\ snapshot' = game'.heap[game'.initialBoard]
        /\ UNCHANGED <<call, generated>>

\* Lines 105-108: the New Game button of the open modal.
ClickModalNewGame ==
    \E rnd \in SessionStreams :
        /\ game.modalShow
        /\ game' = newGame([game EXCEPT !.modalShow = FALSE], Deal(rnd))
        /\ snapshot' = game'.heap[game'.initialBoard]
        /\ UNCHANGED <<call, generated>>

NextSession ==
    \/ ClickNewGame \/ ClickReset \/ ClickCheck \/ ClickSolve \/ ClickCell
    \/ Entry \/ ClickDifficulty \/ ClickHints \/ Tick \/ GameOverPrompt
    \/ ClickModalNewGame

SpecSession == InitSession /\ [][NextSession]_vars

\* C9: the puzzle is derived from a copy of the solved grid.  In every
\* state of a session the solution is the solved grid that was generated,
\* complete and unmodified, the puzzle made with it keeps only cells of it,
\* and the board is an array other than the solution.
C9_SolutionKept ==
    /\ game.board # game.solution
    /\ IsFull(game.heap[game.solution])
    /\ IsSolved(game.heap[game.solution])
    /\ \E t \in DOMAIN generated :
          /\ game.heap[game.solution] = generated[t].solution
          /\ snapshot = generated[t].puzzle
    /\ Extends(game.heap[game.solution], snapshot)

\* A new game has just started: its puzzle has empty cells, its solution
\* has none and is another array.
C9_Witness ==
    /\ game.isGameActive
    /\ game.heap[game.board] = snapshot
    /\ EmptyCount(game.heap[game.board]) > 0
    /\ IsSolved(game.heap[game.solution])
    /\ game.board # game.solution

\* C10: in every state of a session initialBoard is as the last newGame
\* left it, and every cell that is non-empty in it holds the same value in
\* the board and in the solution.
C10_SnapshotKept ==
    /\ game.heap[game.initialBoard] = snapshot
    /\ \A r \in Idx, c \in Idx :
          snapshot[r][c] # 0 =>
              /\ game.heap[game.board][r][c] = snapshot[r][c]
              /\ game.heap[game.solution][r][c] = snapshot[r][c]

\* The player has typed a wrong digit into an empty cell and the snapshot
\* is as before.
C10_Witness ==
    /\ game.heap[game.initialBoard] = snapshot
    /\ \E r \in Idx, c \in Idx :
          /\ snapshot[r][c] = 0
          /\ game.heap[game.board][r][c] # 0
          /\ game.heap[game.board][r][c] # game.heap[game.solution][r][c]


\* The lookup as the specification tabulates it.
RemovalCount(difficulty) ==
    IF difficulty = "medium" THEN 45
    ELSE IF difficulty = "hard" THEN 55
    ELSE 30

\* A step in which newGame runs (lines 117-120 leave the game active with no
\* cell selected and no mistake: only such steps are compared in full).
NewGameStep ==
    /\ game'.isGameActive
    /\ game'.selectedCell = NoCell
    /\ game'.mistakes = 0
    /\ \E rnd \in SessionStreams :
          \/ game' = newGame(game, Deal(rnd))
          \/ game' = newGame([game EXCEPT !.modalShow = FALSE], Deal(rnd))
          \/ /\ game.timeouts > 0
             /\ game' = newGame([game EXCEPT !.timeouts = game.timeouts - 1],
                                Deal(rnd))

\* C12: getCellsToRemove is 30 for 'easy', 45 for 'medium', 55 for 'hard'
\* and 30 for any other value, and the count createPuzzle works with in a
\* newGame is the one of the difficulty set when that newGame runs.
C12_RemovalCount ==
    [][/\ \A d \in Difficulties \cup {"", "Easy", "expert"} :
              getCellsToRemove(d) = RemovalCount(d)
       /\ NewGameStep => game'.cellsToRemove = RemovalCount(game.difficulty)
      ]_vars

\* A game made with 55 removals asked for is in play: the difficulty was set
\* to 'hard' before the new game started.
C12_Witness ==
    /\ game.isGameActive
    /\ game.cellsToRemove = 55
    /\ game.heap[game.board] = snapshot

\* A step in which a waiting game-over prompt is answered with OK and its
\* callback calls newGame.
PromptNewGameStep ==
    /\ game.timeouts > 0
    /\ game'.timeouts = game.timeouts - 1
    /\ \E rnd \in SessionStreams :
          game' = newGame([game EXCEPT !.timeouts = game.timeouts - 1],
                          Deal(rnd))

\* C18: the callback of the game-over prompt starts a new game only while
\* the session is still in the game-over state: its newGame never replaces
\* a game that is active when the callback runs.
C18_AsStated ==
    [][PromptNewGameStep => ~game.isGameActive]_vars

\* C19: after any sequence of session events the timer interval is set
\* exactly when the game is active, and at most one interval is live.
C19_TimerMatchesActive ==
    /\ game.timerInterval <=> game.isGameActive
    /\ game.intervals <= 1
    /\ game.intervals = (IF game.timerInterval THEN 1 ELSE 0)

\* A second game is running after the first one ended in game over: the
\* timer was stopped and started again, and one interval is live.
C19_Witness ==
    /\ game.isGameActive
    /\ game.timerInterval
    /\ game.intervals = 1
    /\ game.timeouts > 0

\* A step in which the keydown handler or the number-pad handler runs.
EntryStep == \E num \in 0 .. N : game' = keyEntry(game, num)

\* C20: mistakes stays within 0 .. maxMistakes, an active game has fewer
\* than maxMistakes, and while the game is inactive a keyboard or number-pad
\* entry changes neither the board nor mistakes.
C20_MistakesBounded ==
    /\ [](/\ game.mistakes \in 0 .. MaxMistakes
          /\ game.isGameActive => game.mistakes < MaxMistakes)
    /\ [][(~game.isGameActive /\ EntryStep) =>
              /\ game'.heap[game'.board] = game.heap[game.board]
              /\ game'.mistakes = game.mistakes]_vars

\* The game is over at maxMistakes with the last cell typed into still
\* selected.
C20_Witness ==
    /\ ~game.isGameActive
    /\ game.mistakes = MaxMistakes
    /\ game.selectedCell # NoCell
    /\ game.timeouts > 0

\* A step in which victory is declared: the modal opens, or checkSolution
\* changes the game, or an entry ends the game without a game-over prompt.
VictoryStep ==
    \/ ~game.modalShow /\ game'.modalShow
    \/ game' # game /\ game' = checkSolution(game)
    \/ /\ game.isGameActive # game'.isGameActive
       /\ game'.timeouts = game.timeouts
       /\ \E num \in 0 .. N : game' = keyEntry(game, num)

\* A step in which an entry fills the last empty cell with a wrong digit
\* that is counted as the mistake reaching maxMistakes.
LastCellLastMistake ==
    /\ entryGuard(game)
    /\ game.hintsEnabled
    /\ game.mistakes = MaxMistakes - 1
    /\ EmptyCells(game.heap[game.board]) = {game.selectedCell}
    /\ \E num \in Digits :
          /\ num # game.heap[game.solution][RowOf(game.selectedCell)]
                                            [ColOf(game.selectedCell)]
          /\ game' = keyEntry(game, num)

\* C21: victory is declared only by a step from an active game whose board
\* then equals the solution cell for cell; an entry that fills the last
\* empty cell and is the mistake that reaches maxMistakes ends in game over
\* and opens no victory modal; checkSolution changes nothing while the game
\* is inactive.
C21_VictoryOnlyWhenSolved ==
    /\ [](~game.isGameActive => checkSolution(game) = game)
    /\ [][/\ VictoryStep =>
                /\ game.isGameActive
                /\ ~game'.isGameActive
                /\ game'.modalShow
                /\ game'.heap[game'.board] = game'.heap[game'.solution]
          /\ LastCellLastMistake =>
                /\ ~game'.isGameActive
                /\ game'.mistakes = MaxMistakes
                /\ game'.timeouts = game.timeouts + 1
                /\ game'.modalShow = game.modalShow
                /\ game'.heap[game'.board] # game'.heap[game'.solution]
         ]_vars

\* The game is over on a full board: the entry that filled the last empty
\* cell was the mistake that reached maxMistakes, and no modal is open.
C21_Witness ==
    /\ ~game.isGameActive
    /\ game.mistakes = MaxMistakes
    /\ game.timeouts > 0
    /\ ~game.modalShow
    /\ isPuzzleComplete(game)
    /\ game.heap[game.board] # game.heap[game.solution]

=============================================================================
